---- MODULE Spec2Model ----
(***************************************************************************)
(* A model of the frame-data engine of the Tekken match analysis platform: *)
(*   - TekkenDocsClient (src/src/lib/tekkendocs-client.ts): the in-memory  *)
(*     TTL cache in front of the tekkendocs.com frame-data API;            *)
(*   - buildMatchupContext, identifyKeyMoves, identifyPunishableMoves and  *)
(*     parseFrameData (src/src/lib/matchup-context.ts);                    *)
(*   - the punish windows of the fallback analysis of analyzeWithOllama    *)
(*     (src/src/lib/ai.ts).                                                *)
(*                                                                         *)
(* JavaScript strings that the code inspects are sequences of              *)
(* one-character strings, so that parseInt, replace, split, toLowerCase    *)
(* and includes are computed as the code computes them.                    *)
(***************************************************************************)
EXTENDS Integers, Sequences, FiniteSets, Bags, TLC

VARIABLES
    cache,      \* TekkenDocsClient.cache: cache key -> [data, timestamp]
    now,        \* Date.now(), in milliseconds since the model's start
    calls,      \* the character ids of the upstream fetches in flight that no
                \* Promise.all awaits: a bag
    builds,     \* the calls of buildMatchupContext and fetchMultipleCharacters
                \* at `await Promise.all`: a bag
    last,       \* what the last step handed to a caller, or NoEvent
    moves,      \* input of identifyKeyMoves / identifyPunishableMoves
    keyOut,     \* result of identifyKeyMoves(moves), or NotRun
    punOut,     \* result of identifyPunishableMoves(moves), or NotRun
    punishMoves,    \* playerPunishData.punishMoves of analyzeWithOllama
    optimalOut,     \* optimalPunishes of the fallback analysis, or NotRun
    rawText,    \* the raw text handed to parseFrameData
    parsed,     \* what parseFrameData(rawText) returned, or NotParsed
    reparsed,   \* what a second parseFrameData(rawText) returned, or NotParsed
    punishableMoves,    \* opponentPunishData.punishableMoves of analyzeWithOllama
    fallback,   \* the fallback MatchAnalysis of analyzeWithOllama, or NoAnalysis
    requestName,    \* a display name of the request: request.playerCharacter
    contextCharId,  \* toCharacterId(requestName) in buildMatchupContext
    fallbackCharId  \* toCharacterId(requestName) in the fallback analysis

vars == <<cache, now, calls, builds, last, moves, keyOut, punOut,
          punishMoves, optimalOut, rawText, parsed, reparsed,
          punishableMoves, fallback, requestName, contextCharId, fallbackCharId>>

cacheVars == <<cache, now, calls, builds, last>>
parseVars == <<rawText, parsed, reparsed>>
fallbackVars == <<punishableMoves, fallback>>
resolveVars == <<requestName, contextCharId, fallbackCharId>>
pureVars == <<moves, keyOut, punOut, punishMoves, optimalOut,
             rawText, parsed, reparsed,
             punishableMoves, fallback, requestName, contextCharId, fallbackCharId>>

-----------------------------------------------------------------------------
(* Bounds of the model.                                                    *)

\* the longest pattern a move list is built from
MaxPatternLen == 3
\* how many times a short pattern is repeated at most
MaxReps == 11
\* how many upstream fetches are in flight at once
MaxPending == 2
\* how many instants after the start the clock is read at
MaxTicks == 2
\* longest raw text built from the alphabet of frame-data characters
MaxTextLen == 3
\* longest list of distinct choices handed to the fallback analysis
MaxFallbackLen == 2

-----------------------------------------------------------------------------
(* JavaScript strings and numbers.                                         *)

Min(a, b) == IF a < b THEN a ELSE b

\* const x = v, and F of x: v is evaluated once, as the element of a set
Const(v, F(_)) == CHOOSE r \in {F(x) : x \in {v}} : TRUE

Abs(n) == IF n < 0 THEN -n ELSE n

\* the value NaN, and a number
NaN == [nan |-> TRUE, n |-> 0]
Num(v) == [nan |-> FALSE, n |-> v]
isNaN(x) == x.nan

DecDigits == <<"0", "1", "2", "3", "4", "5", "6", "7", "8", "9">>
HexLower == <<"a", "b", "c", "d", "e", "f">>
HexUpper == <<"A", "B", "C", "D", "E", "F">>

\* the index of character c in the table, or 0
IndexOf(c, tbl) ==
    Const(tbl, LAMBDA t :
        IF \E i \in 1..Len(t) : t[i] = c
        THEN CHOOSE i \in 1..Len(t) : t[i] = c
        ELSE 0)

\* the value of character c as a digit in the radix, or -1
DigitValue(c, radix) ==
    Const(IndexOf(c, DecDigits), LAMBDA dec :
        IF dec > 0 THEN dec - 1
        ELSE IF radix = 16 /\ IndexOf(c, HexLower) > 0 THEN 9 + IndexOf(c, HexLower)
        ELSE IF radix = 16 /\ IndexOf(c, HexUpper) > 0 THEN 9 + IndexOf(c, HexUpper)
        ELSE -1)

Drop(s, k) == SubSeq(s, k + 1, Len(s))

RECURSIVE TrimStart(_)
TrimStart(s) ==
    IF s # <<>> /\ s[1] = " " THEN TrimStart(Tail(s)) ELSE s

\* the longest prefix of s made of digits of the radix: <<digit count, value>>
RECURSIVE ScanDigits(_, _, _, _)
ScanDigits(s, radix, count, acc) ==
    IF s = <<>> THEN <<count, acc>>
    ELSE Const(DigitValue(s[1], radix), LAMBDA digit :
            IF digit < 0 THEN <<count, acc>>
            ELSE Const(acc * radix + digit, LAMBDA value :
                 Const(Tail(s), LAMBDA rest :
                 ScanDigits(rest, radix, count + 1, value))))

\* parseInt(s) with no radix argument
parseInt(s) ==
    Const(TrimStart(s), LAMBDA t :
    Const(IF t # <<>> /\ t[1] \in {"+", "-"} THEN Tail(t) ELSE t, LAMBDA u :
        LET neg == t # <<>> /\ t[1] = "-"
            hex == Len(u) >= 2 /\ u[1] = "0" /\ u[2] \in {"x", "X"}
        IN Const(ScanDigits(IF hex THEN Drop(u, 2) ELSE u,
                            IF hex THEN 16 ELSE 10, 0, 0), LAMBDA scan :
              IF scan[1] = 0 THEN NaN
              ELSE Num(IF neg THEN -scan[2] ELSE scan[2]))))

\* s.replace(/[+]/g, '')
StripPlus(s) == SelectSeq(s, LAMBDA c : c # "+")

UpperCase == <<"A", "B", "C", "D", "E", "F", "G", "H", "I", "J", "K", "L", "M",
               "N", "O", "P", "Q", "R", "S", "T", "U", "V", "W", "X", "Y", "Z">>
LowerCase == <<"a", "b", "c", "d", "e", "f", "g", "h", "i", "j", "k", "l", "m",
               "n", "o", "p", "q", "r", "s", "t", "u", "v", "w", "x", "y", "z">>

\* s.toLowerCase()
toLowerCase(s) ==
    Const(s, LAMBDA t :
        [i \in 1..Len(t) |->
            Const(IndexOf(t[i], UpperCase), LAMBDA k :
                IF k > 0 THEN LowerCase[k] ELSE t[i])])

\* s.includes(sub)
includes(s, sub) ==
    Const(s, LAMBDA t :
    Const(sub, LAMBDA u :
        \E i \in 0..(Len(t) - Len(u)) : SubSeq(t, i + 1, i + Len(u)) = u))

\* the position of the first character c in s, or 0
FirstIndex(s, c) ==
    IF \E i \in 1..Len(s) : s[i] = c
    THEN CHOOSE i \in 1..Len(s) : s[i] = c /\ \A j \in 1..(i - 1) : s[j] # c
    ELSE 0

\* s.split(c)[0]
SplitFirst(s, c) ==
    IF FirstIndex(s, c) = 0 THEN s ELSE SubSeq(s, 1, FirstIndex(s, c) - 1)

\* s.replace(c, ''): a string pattern replaces the first occurrence only
RemoveFirst(s, c) ==
    IF FirstIndex(s, c) = 0 THEN s
    ELSE SubSeq(s, 1, FirstIndex(s, c) - 1) \o Drop(s, FirstIndex(s, c))

\* a property that may be absent from a JSON object
Some(s) == [present |-> TRUE, text |-> s]
Missing == [present |-> FALSE, text |-> <<>>]

\* an output before its function has run, and after it returned list l
NotRun == [ran |-> FALSE, out |-> <<>>]
Ran(l) == [ran |-> TRUE, out |-> l]

\* the fallback analysis before it is built, and after
NoAnalysis == [done |-> FALSE, analysis |-> <<>>]
Analysis(a) == [done |-> TRUE, analysis |-> a]

\* a character id before toCharacterId has run, and after it returned id
Unresolved == [done |-> FALSE, id |-> <<>>]
ResolvedTo(id) == [done |-> TRUE, id |-> id]

\* no fallback analysis asked for, and no display name to resolve
FallbackIdle ==
    /\ punishableMoves = <<>>
    /\ fallback = NoAnalysis

ResolveIdle ==
    /\ requestName = <<>>
    /\ contextCharId = Unresolved
    /\ fallbackCharId = Unresolved

\* a parse before it has run, and after it returned result r
NotParsed == [done |-> FALSE, result |-> <<>>]
Parsed(r) == [done |-> TRUE, result |-> r]

-----------------------------------------------------------------------------
(* parseFrameData.                                                         *)

\* the parse without its isNaN test: whatever parseInt gave is the number
parseFrameDataUnchecked(value) ==
    [tag |-> "Numeric", n |-> parseInt(StripPlus(value)).n, raw |-> value]

\* the parse with '~' taken out along with '+': a range runs its digits together
parseFrameDataStripTilde(value) ==
    LET num == parseInt(SelectSeq(value, LAMBDA c : c \notin {"+", "~"}))
    IN IF ~isNaN(num) THEN [tag |-> "Numeric", n |-> num.n, raw |-> value]
       ELSE [tag |-> "Raw", n |-> 0, raw |-> value]

\* number | string: a number when parseInt succeeds, else the text as it is
parseFrameData(value) ==
    LET num == parseInt(StripPlus(value))
    IN IF ~isNaN(num) THEN [tag |-> "Numeric", n |-> num.n, raw |-> value]
       ELSE [tag |-> "Raw", n |-> 0, raw |-> value]

-----------------------------------------------------------------------------
(* Array.prototype.sort, as V8 runs it on an array of fewer than 64         *)
(* elements: one run, found by CountAndMakeRun and extended by             *)
(* BinaryInsertionSort. The comparators are named by a tag.                *)

isLauncher(m) ==
    \/ includes(toLowerCase(m.hit), <<"l", "a", "u", "n", "c", "h">>)
    \/ includes(toLowerCase(m.counterHit), <<"l", "a", "u", "n", "c", "h">>)

blockOf(m) == parseInt(StripPlus(m.block))

\* the comparator without its two launcher tests: block values alone
keyCompareBlockOnly(a, b) ==
    Const(blockOf(a), LAMBDA aBlock :
    Const(blockOf(b), LAMBDA bBlock :
        IF ~isNaN(aBlock) /\ ~isNaN(bBlock) THEN bBlock.n - aBlock.n
        ELSE 0))

\* the comparator of keyMoves.sort
keyCompare(a, b) ==
    Const(isLauncher(a), LAMBDA aLauncher :
    Const(isLauncher(b), LAMBDA bLauncher :
        IF aLauncher /\ ~bLauncher THEN -1
        ELSE IF ~aLauncher /\ bLauncher THEN 1
        ELSE Const(blockOf(a), LAMBDA aBlock :
             Const(blockOf(b), LAMBDA bBlock :
                IF ~isNaN(aBlock) /\ ~isNaN(bBlock) THEN bBlock.n - aBlock.n
                ELSE 0))))

\* the comparator with its operands exchanged: most positive first
punishableCompareDescending(a, b) ==
    Const(blockOf(a), LAMBDA aBlock :
    Const(blockOf(b), LAMBDA bBlock :
        IF isNaN(aBlock) \/ isNaN(bBlock) THEN NaN
        ELSE Num(bBlock.n - aBlock.n)))

\* the comparator of punishable.sort: NaN - x is NaN, and NaN < 0 is false
punishableCompare(a, b) ==
    Const(blockOf(a), LAMBDA aBlock :
    Const(blockOf(b), LAMBDA bBlock :
        IF isNaN(aBlock) \/ isNaN(bBlock) THEN NaN
        ELSE Num(aBlock.n - bBlock.n)))

\* whether the comparator's result is below zero
Before(cmp, a, b) ==
    IF cmp = "key" THEN keyCompare(a, b) < 0
    ELSE Const(punishableCompare(a, b), LAMBDA order :
            ~isNaN(order) /\ order.n < 0)

Reverse(s) == [i \in 1..Len(s) |-> s[Len(s) + 1 - i]]

\* the length of the run that starts the array, idx being the next index
RECURSIVE RunLength(_, _, _, _)
RunLength(a, cmp, idx, descending) ==
    IF idx > Len(a) THEN idx - 1
    ELSE IF descending /\ ~Before(cmp, a[idx], a[idx - 1]) THEN idx - 1
    ELSE IF ~descending /\ Before(cmp, a[idx], a[idx - 1]) THEN idx - 1
    ELSE RunLength(a, cmp, idx + 1, descending)

\* the array after CountAndMakeRun, and the run's length
CountAndMakeRun(a, cmp) ==
    LET descending == Before(cmp, a[2], a[1])
        run == RunLength(a, cmp, 3, descending)
    IN [run |-> run,
        arr |-> IF descending
                THEN Reverse(SubSeq(a, 1, run)) \o Drop(a, run)
                ELSE a]

\* where the pivot goes among a[1..start-1]
RECURSIVE BinarySearch(_, _, _, _, _)
BinarySearch(a, cmp, pivot, left, right) ==
    IF left >= right THEN left
    ELSE LET mid == left + ((right - left) \div 2)
         IN IF Before(cmp, pivot, a[mid])
            THEN BinarySearch(a, cmp, pivot, left, mid)
            ELSE BinarySearch(a, cmp, pivot, mid + 1, right)

\* the array with a[start] moved to index left
Placed(a, start, left) ==
    SubSeq(a, 1, left - 1) \o <<a[start]>>
        \o SubSeq(a, left, start - 1) \o Drop(a, start)

\* each element from index start on is inserted into the sorted part before it
RECURSIVE BinaryInsertionSort(_, _, _)
BinaryInsertionSort(a, cmp, start) ==
    IF start > Len(a) THEN a
    ELSE Const(BinarySearch(a, cmp, a[start], 1, start), LAMBDA left :
         Const(Placed(a, start, left), LAMBDA placed :
         BinaryInsertionSort(placed, cmp, start + 1)))

ArraySort(a, cmp) ==
    IF Len(a) < 2 THEN a
    ELSE Const(CountAndMakeRun(a, cmp), LAMBDA made :
         BinaryInsertionSort(made.arr, cmp, made.run + 1))

\* a slice that keeps one element too many
SliceOneMore(a, k) == SubSeq(a, 1, Min(k + 1, Len(a)))

\* a.slice(0, k)
Slice(a, k) == SubSeq(a, 1, Min(k, Len(a)))

-----------------------------------------------------------------------------
(* identifyKeyMoves and identifyPunishableMoves.                           *)

KeyMovesCap == 20
PunishableCap == 15
FastPokeStartup == 12
PunishableBlock == -10

specialProperties == <<
    <<"h", "o", "m", "i", "n", "g">>,
    <<"h", "e", "a", "t">>,
    <<"p", "o", "w", "e", "r", " ", "c", "r", "u", "s", "h">>,
    <<"t", "o", "r", "n", "a", "d", "o">>,
    <<"b", "a", "l", "c", "o", "n", "y">> >>

\* the filter with the plus-frame rule read off the sign alone: a block text
\* that starts with '+' counts as plus on block
isKeyMovePlusSign(m) ==
    \/ isLauncher(m)
    \/ Const(parseInt(m.startup), LAMBDA startup :
            ~isNaN(startup) /\ startup.n <= FastPokeStartup)
    \/ (m.block # <<>> /\ m.block[1] = "+")
    \/ Const(toLowerCase(m.notes), LAMBDA notes :
            \E prop \in {specialProperties[i] : i \in 1..Len(specialProperties)} :
                includes(notes, prop))

\* the filter of identifyKeyMoves
isKeyMove(m) ==
    \/ isLauncher(m)
    \/ Const(parseInt(m.startup), LAMBDA startup :
            ~isNaN(startup) /\ startup.n <= FastPokeStartup)
    \/ Const(blockOf(m), LAMBDA block : ~isNaN(block) /\ block.n > 0)
    \/ Const(toLowerCase(m.notes), LAMBDA notes :
            \E prop \in {specialProperties[i] : i \in 1..Len(specialProperties)} :
                includes(notes, prop))

identifyKeyMoves(ms) ==
    Const(SelectSeq(ms, isKeyMove), LAMBDA keyMoves :
    Const(ArraySort(keyMoves, "key"), LAMBDA sorted :
    Slice(sorted, KeyMovesCap)))

\* the filter with a strict bound: a move at exactly -10 is left out
isPunishableStrict(m) ==
    Const(blockOf(m), LAMBDA block : ~isNaN(block) /\ block.n < PunishableBlock)

\* the filter of identifyPunishableMoves
isPunishable(m) ==
    Const(blockOf(m), LAMBDA block : ~isNaN(block) /\ block.n <= PunishableBlock)

identifyPunishableMoves(ms) ==
    Const(SelectSeq(ms, isPunishable), LAMBDA punishable :
    Const(ArraySort(punishable, "punishable"), LAMBDA sorted :
    Slice(sorted, PunishableCap)))

-----------------------------------------------------------------------------
(* The punish windows of the fallback analysis of analyzeWithOllama.       *)

WindowCap == 3

punishWindows == <<
    [window |-> "10f", maxFrame |-> 10, minFrame |-> 9],
    [window |-> "12f", maxFrame |-> 12, minFrame |-> 11],
    [window |-> "13f", maxFrame |-> 13, minFrame |-> 13],
    [window |-> "14f", maxFrame |-> 14, minFrame |-> 14],
    [window |-> "15f+", maxFrame |-> 99, minFrame |-> 15] >>

\* x || '99'
OrDefault99(x) == IF x # <<>> THEN x ELSE <<"9", "9">>

\* the startup the window filter computes for a punish move
windowStartup(move) ==
    LET startupStr == OrDefault99(IF move.StartUpFrame.present
                                  THEN SplitFirst(move.StartUpFrame.text, " ")
                                  ELSE <<>>)
    IN parseInt(OrDefault99(SplitFirst(RemoveFirst(startupStr, "i"), "~")))

inWindow(move, w) ==
    /\ ~isNaN(windowStartup(move))
    /\ windowStartup(move).n >= w.minFrame
    /\ windowStartup(move).n <= w.maxFrame

\* Boolean(move.Command)
hasCommand(move) == move.Command.present /\ move.Command.text # <<>>

applicablePunishMoves(pm, w) == SelectSeq(pm, LAMBDA m : inWindow(m, w))

recommendedMoves(pm, w) ==
    LET kept == SelectSeq(Slice(applicablePunishMoves(pm, w), WindowCap), hasCommand)
    IN [i \in 1..Len(kept) |-> kept[i].Command.text]

windowOf(pm, w) ==
    [window |-> w.window,
     recommendedMoves |-> recommendedMoves(pm, w),
     situations |-> <<"after", "when", IF w.window = "15f+" THEN "launch" ELSE "fast">>]

\* the five windows as mapped, without the closing filter
optimalPunishesUnfiltered(pm) ==
    [i \in 1..Len(punishWindows) |-> windowOf(pm, punishWindows[i])]

optimalPunishes(pm) ==
    SelectSeq([i \in 1..Len(punishWindows) |-> windowOf(pm, punishWindows[i])],
              LAMBDA p : Len(p.recommendedMoves) > 0)

\* the argument array with the sort applied to it in place
movesSortedInPlace(ms, cmp) == ArraySort(ms, cmp)

\* the array identifyKeyMoves (cmp "key") or identifyPunishableMoves (cmp
\* "punishable") was given, as the call leaves it: moves.filter returns a new
\* array, .sort orders that array in place, and .slice copies from it
movesAfterIdentify(ms, cmp) ==
    LET filtered == [moves |-> ms,
                     selected |-> IF cmp = "key" THEN SelectSeq(ms, isKeyMove)
                                  ELSE SelectSeq(ms, isPunishable)]
        sorted == [filtered EXCEPT !.selected = ArraySort(@, cmp)]
    IN sorted.moves

-----------------------------------------------------------------------------
(* The fallback MatchAnalysis of analyzeWithOllama, and the schema the     *)
(* model's response is validated against.                                  *)

\* { Command: "1,1,2" }
DefaultPunishMove == [Command |-> Some(<<"1,1,2">>), StartUpFrame |-> Missing]

\* x || '10'
OrDefault10(x) == IF x # <<>> THEN x ELSE <<"1", "0">>

\* Math.abs
MathAbs(x) == IF isNaN(x) THEN NaN ELSE Num(Abs(x.n))

\* punishMoves[index % punishMoves.length] || { Command: "1,1,2" }: with no
\* punish moves the index is NaN and the element undefined
punishMoveAt(pm, index) ==
    IF Len(pm) = 0 THEN DefaultPunishMove ELSE pm[(index % Len(pm)) + 1]

\* Math.abs(parseInt(oppMove['Block frame']?.replace(/[+]/g, '') || '10'))
oppBlockFrame(oppMove) ==
    MathAbs(parseInt(OrDefault10(IF oppMove.BlockFrame.present
                                 THEN StripPlus(oppMove.BlockFrame.text)
                                 ELSE <<>>)))

\* parseInt(punishMove['Start up frame']?.split(' ')[0] || '10')
punishStartup(punishMove) ==
    parseInt(OrDefault10(IF punishMove.StartUpFrame.present
                         THEN SplitFirst(punishMove.StartUpFrame.text, " ")
                         ELSE <<>>))

\* oppBlockFrame - punishStartup: NaN when either is
frameAdvantage(oppMove, punishMove) ==
    IF isNaN(oppBlockFrame(oppMove)) \/ isNaN(punishStartup(punishMove)) THEN NaN
    ELSE Num(oppBlockFrame(oppMove).n - punishStartup(punishMove).n)

\* the chain of >= tests on oppBlockFrame: every test on NaN is false
punishWindowOf(block) ==
    IF ~isNaN(block) /\ block.n >= 15 THEN "15f+"
    ELSE IF ~isNaN(block) /\ block.n >= 14 THEN "14f"
    ELSE IF ~isNaN(block) /\ block.n >= 13 THEN "13f"
    ELSE IF ~isNaN(block) /\ block.n >= 12 THEN "12f"
    ELSE "10f"

\* one element of punishOptions; frameAdvantage is `${frameAdvantage} frames`,
\* kept as the number printed and the text after it
punishOption(oppMove, punishMove) ==
    [opponentMove |-> IF hasCommand(oppMove) THEN oppMove.Command.text
                      ELSE <<"Unknown move">>,
     punishMove |-> IF hasCommand(punishMove) THEN punishMove.Command.text
                    ELSE <<"1,1,2">>,
     punishWindow |-> punishWindowOf(oppBlockFrame(oppMove)),
     frameAdvantage |-> [printed |-> frameAdvantage(oppMove, punishMove),
                         unit |-> " frames"]]

punishOptions(pb, pm) ==
    [i \in 1..Len(pb) |-> punishOption(pb[i], punishMoveAt(pm, i - 1))]

\* the one strategy of the fallback: a condition for each of the first three
\* punishable moves, and the commands of the first five punish moves
strategies(pb, pm) ==
    LET named == SelectSeq(Slice(pm, 5), hasCommand)
    IN << [name |-> "Frame-Specific Punishing",
           conditions |-> [i \in 1..Min(3, Len(pb)) |-> <<"When opponent uses", pb[i].Command>>],
           moves |-> [i \in 1..Len(named) |-> named[i].Command.text]] >>

tips == <<"Found", "Use 10f punishers", "Count frames", "Practice punish timing">>

\* const fallback: MatchAnalysis = { ... }
fallbackAnalysis(pb, pm) ==
    [punishOptions |-> punishOptions(pb, pm),
     optimalPunishes |-> optimalPunishes(pm),
     strategies |-> strategies(pb, pm),
     tips |-> tips]

\* the minimum sizes of MatchAnalysisSchema
MinPunishOptions == 8
MinOptimalPunishes == 3
MinStrategies == 3
MinTips == 3

\* PunishOptionSchema, OptimalPunishSchema and StrategySchema: the texts the
\* fallback writes as fixed templates are as long as the schema asks
PunishOptionSchema(o) ==
    /\ Len(o.opponentMove) >= 1
    /\ Len(o.punishMove) >= 1

OptimalPunishSchema(p) ==
    /\ Len(p.recommendedMoves) >= 1
    /\ Len(p.situations) >= 1

StrategySchema(st) ==
    /\ Len(st.conditions) >= 1
    /\ Len(st.moves) >= 1

\* MatchAnalysisSchema.parse succeeds on a
MatchAnalysisSchema(a) ==
    /\ Len(a.punishOptions) >= MinPunishOptions
    /\ \A i \in 1..Len(a.punishOptions) : PunishOptionSchema(a.punishOptions[i])
    /\ Len(a.optimalPunishes) >= MinOptimalPunishes
    /\ \A i \in 1..Len(a.optimalPunishes) : OptimalPunishSchema(a.optimalPunishes[i])
    /\ Len(a.strategies) >= MinStrategies
    /\ \A i \in 1..Len(a.strategies) : StrategySchema(a.strategies[i])
    /\ Len(a.tips) >= MinTips

-----------------------------------------------------------------------------
(* Inputs of the classifiers: a pattern of catalogue moves, repeated.      *)

\* command, startup, block, hit, counterHit, notes
MoveCatalog == <<
    [command |-> "db+3+4", startup |-> <<"2", "0">>, block |-> <<"-", "3", "1">>,
     hit |-> <<"L", "a", "u", "n", "c", "h">>, counterHit |-> <<"L", "a", "u", "n", "c", "h">>,
     notes |-> <<>>],
    [command |-> "1,1,2", startup |-> <<"1", "0">>, block |-> <<"-", "1", "0">>,
     hit |-> <<"+", "1">>, counterHit |-> <<"+", "1">>, notes |-> <<>>],
    [command |-> "df+1", startup |-> <<"1", "4">>, block |-> <<"-", "9">>,
     hit |-> <<"+", "2">>, counterHit |-> <<"K", "N", "D">>, notes |-> <<>>],
    [command |-> "b+4", startup |-> <<"1", "5">>, block |-> <<"+", "5">>,
     hit |-> <<"+", "8">>, counterHit |-> <<"+", "8">>,
     notes |-> <<"H", "o", "m", "i", "n", "g">>],
    [command |-> "f+2", startup |-> <<>>, block |-> <<"+", "?", "?">>,
     hit |-> <<>>, counterHit |-> <<>>, notes |-> <<>>],
    [command |-> "uf+4", startup |-> <<"i", "1", "3", "~", "1", "4">>,
     block |-> <<"-", "1", "3", "~", "-", "1", "2">>,
     hit |-> <<"K", "N", "D">>, counterHit |-> <<"l", "a", "u", "n", "c", "h">>,
     notes |-> <<>>],
    [command |-> "d+2", startup |-> <<"1", "2">>, block |-> <<"+", "?", "?">>,
     hit |-> <<"+", "3">>, counterHit |-> <<"+", "3">>, notes |-> <<>>] >>

\* Command, 'Start up frame'
PunishCatalog == <<
    [Command |-> Some(<<"1", "2">>), StartUpFrame |-> Some(<<"i", "1", "0">>)],
    [Command |-> Some(<<"2", "1">>), StartUpFrame |-> Some(<<"i", "1", "3", "~", "1", "4">>)],
    [Command |-> Some(<<"d", "f", "2">>), StartUpFrame |-> Some(<<"i", "1", "5", " ", "j", "s">>)],
    [Command |-> Some(<<"b", "4">>), StartUpFrame |-> Missing],
    [Command |-> Missing, StartUpFrame |-> Some(<<"i", "1", "0">>)],
    [Command |-> Some(<<"f", "3">>), StartUpFrame |-> Some(<<"i", "1", "0", "0">>)],
    [Command |-> Some(<<"d", "1">>), StartUpFrame |-> Some(<<"?">>)] >>

\* Command, 'Block frame': opponentPunishData.punishableMoves
PunishableCatalog == <<
    [Command |-> Some(<<"d", "b", "+", "3", "+", "4">>), BlockFrame |-> Some(<<"-", "3", "1">>)],
    [Command |-> Some(<<"d", "f", "2">>), BlockFrame |-> Some(<<"-", "1", "0">>)],
    [Command |-> Some(<<"b", "1">>), BlockFrame |-> Missing],
    [Command |-> Some(<<"u", "f", "4">>), BlockFrame |-> Some(<<"-", "?", "?">>)] >>

\* Command, 'Start up frame': playerPunishData.punishMoves, with the startup
\* written as a number or as in TekkenDocs ("i10")
FallbackPunishCatalog == <<
    [Command |-> Some(<<"1", ",", "1", ",", "2">>), StartUpFrame |-> Some(<<"1", "0">>)],
    PunishCatalog[1],
    [Command |-> Some(<<"u", "f", "4">>), StartUpFrame |-> Some(<<"1", "5", " ", "j", "s">>)],
    PunishCatalog[4],
    PunishCatalog[5] >>

Patterns == UNION {[1..n -> 1..Len(MoveCatalog)] : n \in 1..MaxPatternLen}

\* the lengths of the lists built from pattern p: a short pattern is repeated
\* up to and beyond the caps, a longer one is taken once
Lengths(p) ==
    IF Len(p) <= 2 THEN {Len(p) * r : r \in {1, MaxReps - 1, MaxReps}}
    ELSE {Len(p)}

\* the catalogue index at position i of the list that repeats pattern p
PatternAt(p, i, size) == ((p[((i - 1) % Len(p)) + 1] - 1) % size) + 1

\* the move list of length n that repeats pattern p; moveNumber is the position
MoveList(p, n) ==
    [i \in 1..n |->
        LET c == MoveCatalog[PatternAt(p, i, Len(MoveCatalog))]
        IN [moveNumber |-> i, command |-> c.command, startup |-> c.startup,
            block |-> c.block, hit |-> c.hit, counterHit |-> c.counterHit,
            notes |-> c.notes]]

PunishList(p, n) ==
    [i \in 1..n |->
        LET c == PunishCatalog[PatternAt(p, i, Len(PunishCatalog))]
        IN [index |-> i, Command |-> c.Command, StartUpFrame |-> c.StartUpFrame]]

\* a pattern and a length: one move list and one punish-move list
PatternInputs == UNION {{<<p, n>> : n \in Lengths(p)} : p \in Patterns}

-----------------------------------------------------------------------------
(* toCharacterId of matchup-context.ts.                                    *)

\* the specialCases table: display name, character id
specialCases == <<
    <<<<"D", "e", "v", "i", "l", " ", "J", "i", "n">>,
      <<"d", "e", "v", "i", "l", "-", "j", "i", "n">>>>,
    <<<<"S", "e", "r", "g", "e", "i", " ", "D", "r", "a", "g", "u", "n", "o", "v">>,
      <<"d", "r", "a", "g", "u", "n", "o", "v">>>>,
    <<<<"J", "u", "n", " ", "K", "a", "z", "a", "m", "a">>,
      <<"j", "u", "n">>>>,
    <<<<"J", "i", "n", " ", "K", "a", "z", "a", "m", "a">>,
      <<"j", "i", "n">>>>,
    <<<<"S", "t", "e", "v", "e", " ", "F", "o", "x">>,
      <<"s", "t", "e", "v", "e">>>>,
    <<<<"L", "i", "n", "g", " ", "X", "i", "a", "o", "y", "u">>,
      <<"x", "i", "a", "o", "y", "u">>>>,
    <<<<"M", "a", "r", "s", "h", "a", "l", "l", " ", "L", "a", "w">>,
      <<"l", "a", "w">>>>,
    <<<<"N", "i", "n", "a", " ", "W", "i", "l", "l", "i", "a", "m", "s">>,
      <<"n", "i", "n", "a">>>>,
    <<<<"A", "n", "n", "a", " ", "W", "i", "l", "l", "i", "a", "m", "s">>,
      <<"a", "n", "n", "a">>>>,
    <<<<"A", "r", "m", "o", "r", " ", "K", "i", "n", "g">>,
      <<"a", "r", "m", "o", "r", "-", "k", "i", "n", "g">>>>,
    <<<<"A", "z", "u", "c", "e", "n", "a", " ", "M", "i", "l", "a", "g", "r", "o", "s", " ", "O", "r", "t", "i", "z", " ", "C", "a", "s", "t", "i", "l", "l", "o">>,
      <<"a", "z", "u", "c", "e", "n", "a">>>>,
    <<<<"L", "e", "e", " ", "C", "h", "a", "o", "l", "a", "n">>,
      <<"l", "e", "e">>>>,
    <<<<"C", "l", "i", "v", "e", " ", "R", "o", "s", "f", "i", "e", "l", "d">>,
      <<"c", "l", "i", "v", "e">>>>,
    <<<<"E", "d", "d", "y", " ", "G", "o", "r", "d", "o">>,
      <<"e", "d", "d", "y">>>>,
    <<<<"H", "e", "i", "h", "a", "c", "h", "i", " ", "M", "i", "s", "h", "i", "m", "a">>,
      <<"h", "e", "i", "h", "a", "c", "h", "i">>>>,
    <<<<"L", "i", "d", "i", "a", " ", "S", "o", "b", "i", "e", "s", "k", "a">>,
      <<"l", "i", "d", "i", "a">>>> >>

\* the letters, digits and hyphen that /[^a-z0-9-]/g keeps
isIdChar(c) ==
    IndexOf(c, LowerCase) > 0 \/ IndexOf(c, DecDigits) > 0 \/ c = "-"

\* toLowerCase, then / /g to '-', then everything but a-z, 0-9 and '-' removed
fallbackTransform(displayName) ==
    LET lower == toLowerCase(displayName)
        hyphenated == [i \in 1..Len(lower) |-> IF lower[i] = " " THEN "-" ELSE lower[i]]
    IN SelectSeq(hyphenated, isIdChar)

\* a table entry whose id is the empty string would be falsy and fall through
toCharacterId(displayName) ==
    IF \E i \in 1..Len(specialCases) :
          specialCases[i][1] = displayName /\ specialCases[i][2] # <<>>
    THEN specialCases[CHOOSE i \in 1..Len(specialCases) :
                          specialCases[i][1] = displayName][2]
    ELSE fallbackTransform(displayName)

\* the specialMappings table of the toCharacterId that the fallback of
\* analyzeWithOllama declares for itself
specialMappings == <<
    <<<<"D", "e", "v", "i", "l", " ", "J", "i", "n">>,
      <<"d", "e", "v", "i", "l", "-", "j", "i", "n">>>>,
    <<<<"K", "a", "z", "u", "y", "a", " ", "M", "i", "s", "h", "i", "m", "a">>,
      <<"k", "a", "z", "u", "y", "a">>>>,
    <<<<"M", "a", "r", "s", "h", "a", "l", "l", " ", "L", "a", "w">>,
      <<"m", "a", "r", "s", "h", "a", "l", "l", "-", "l", "a", "w">>>> >>

\* that toCharacterId: the table, else the same transformation
toCharacterIdLocal(displayName) ==
    IF \E i \in 1..Len(specialMappings) :
          specialMappings[i][1] = displayName /\ specialMappings[i][2] # <<>>
    THEN specialMappings[CHOOSE i \in 1..Len(specialMappings) :
                             specialMappings[i][1] = displayName][2]
    ELSE fallbackTransform(displayName)

\* the display names the form offers
TEKKEN8_CHARACTERS == <<
    <<"A", "l", "i", "s", "a", " ", "B", "o", "s", "c", "o", "n", "o", "v", "i", "t", "c", "h">>,
    <<"A", "s", "u", "k", "a", " ", "K", "a", "z", "a", "m", "a">>,
    <<"A", "z", "u", "c", "e", "n", "a", " ", "M", "i", "l", "a", "g", "r", "o", "s", " ", "O", "r", "t", "i", "z", " ", "C", "a", "s", "t", "i", "l", "l", "o">>,
    <<"B", "r", "y", "a", "n", " ", "F", "u", "r", "y">>,
    <<"C", "l", "a", "u", "d", "i", "o", " ", "S", "e", "r", "a", "f", "i", "n", "o">>,
    <<"D", "e", "v", "i", "l", " ", "J", "i", "n">>,
    <<"S", "e", "r", "g", "e", "i", " ", "D", "r", "a", "g", "u", "n", "o", "v">>,
    <<"F", "e", "n", "g", " ", "W", "e", "i">>,
    <<"H", "w", "o", "a", "r", "a", "n", "g">>,
    <<"J", "a", "c", "k", "-", "8">>,
    <<"J", "i", "n", " ", "K", "a", "z", "a", "m", "a">>,
    <<"J", "u", "n", " ", "K", "a", "z", "a", "m", "a">>,
    <<"K", "a", "z", "u", "y", "a", " ", "M", "i", "s", "h", "i", "m", "a">>,
    <<"K", "i", "n", "g">>,
    <<"K", "u", "m", "a">>,
    <<"L", "a", "r", "s", " ", "A", "l", "e", "x", "a", "n", "d", "e", "r", "s", "s", "o", "n">>,
    <<"L", "e", "e", " ", "C", "h", "a", "o", "l", "a", "n">>,
    <<"L", "e", "o", " ", "K", "l", "i", "e", "s", "e", "n">>,
    <<"L", "e", "r", "o", "y", " ", "S", "m", "i", "t", "h">>,
    <<"L", "i", "l", "i">>,
    <<"L", "i", "n", "g", " ", "X", "i", "a", "o", "y", "u">>,
    <<"M", "a", "r", "s", "h", "a", "l", "l", " ", "L", "a", "w">>,
    <<"N", "i", "n", "a", " ", "W", "i", "l", "l", "i", "a", "m", "s">>,
    <<"P", "a", "n", "d", "a">>,
    <<"P", "a", "u", "l", " ", "P", "h", "o", "e", "n", "i", "x">>,
    <<"R", "a", "v", "e", "n">>,
    <<"R", "e", "i", "n", "a">>,
    <<"S", "h", "a", "h", "e", "e", "n">>,
    <<"S", "t", "e", "v", "e", " ", "F", "o", "x">>,
    <<"V", "i", "c", "t", "o", "r", " ", "C", "h", "e", "v", "a", "l", "i", "e", "r">>,
    <<"Y", "o", "s", "h", "i", "m", "i", "t", "s", "u">>,
    <<"Z", "a", "f", "i", "n", "a">>,
    <<"C", "l", "i", "v", "e", " ", "R", "o", "s", "f", "i", "e", "l", "d">>,
    <<"E", "d", "d", "y", " ", "G", "o", "r", "d", "o">>,
    <<"H", "e", "i", "h", "a", "c", "h", "i", " ", "M", "i", "s", "h", "i", "m", "a">>,
    <<"L", "i", "d", "i", "a", " ", "S", "o", "b", "i", "e", "s", "k", "a">>,
    <<"A", "n", "n", "a", " ", "W", "i", "l", "l", "i", "a", "m", "s">>,
    <<"F", "a", "h", "k", "u", "m", "r", "a", "m">>,
    <<"A", "r", "m", "o", "r", " ", "K", "i", "n", "g">> >>

-----------------------------------------------------------------------------
(* TekkenDocsClient: the cache and fetchCharacterFrameData.                *)

cacheTTL == 24 * 60 * 60 * 1000

\* `framedata:t8:${characterId}`
cacheKey(characterId) == <<"framedata:t8:">> \o characterId

EmptyCache == [k \in {} |-> 0]

\* JSON values of the framesNormal property
Undefined == [type |-> "undefined", items |-> <<>>]
Text == [type |-> "string", items |-> <<>>]
Array(list) == [type |-> "array", items |-> list]

\* !v is false
truthy(v) == v.type \notin {"undefined", "null"}

isArray(v) == v.type = "array"

\* a response body that parsed to an object
Response(frames) == [framesNormal |-> frames]

\* the move lists the upstream source answers with
UpstreamLists == {<<>>, MoveList(<<1, 4>>, 2)}

\* how the upstream request of a call ends: fetch() rejects, or answers with a
\* status that is not ok, or response.json() rejects, or the body is null, an
\* object without framesNormal, one whose framesNormal is a string, or one
\* whose framesNormal is a list
UpstreamOutcomes ==
    {[kind |-> k, data |-> Response(Undefined)] :
        k \in {"networkError", "notOk", "syntaxError", "null", "object"}}
    \cup {[kind |-> "object", data |-> Response(Text)]}
    \cup {[kind |-> "object", data |-> Response(Array(l))] : l \in UpstreamLists}

\* the comparison with a TTL one millisecond short
isFreshShortTTL(entry, t) == t - entry.timestamp < cacheTTL - 1

\* the comparison with the bound included
isFreshInclusive(entry, t) == t - entry.timestamp <= cacheTTL

\* the outcomes of a request for characterId: '' names no character, and its
\* request ends in a status that is not ok or, at most, in a list
OutcomesOf(characterId) ==
    IF characterId = <<>>
    THEN {o \in UpstreamOutcomes :
            \/ o.kind = "notOk"
            \/ o.kind = "object" /\ o.data.framesNormal.type = "array"
                                 /\ o.data.framesNormal.items # <<>>}
    ELSE UpstreamOutcomes

\* Date.now() - cached.timestamp < this.cacheTTL
isFresh(entry, t) == t - entry.timestamp < cacheTTL

\* the check at the head of fetchCharacterFrameData
cacheHit(characterId) ==
    /\ cacheKey(characterId) \in DOMAIN cache
    /\ isFresh(cache[cacheKey(characterId)], now)

NoData == Response(Undefined)

\* the check without its Array.isArray half
validStructurePresenceOnly(data) == truthy(data.framesNormal)

\* the data passes the check of lines 36-38
validStructure(data) == truthy(data.framesNormal) /\ isArray(data.framesNormal)

\* whether the upstream request ends in a response the call accepts
accepted(outcome) == outcome.kind = "object" /\ validStructure(outcome.data)

\* this.cache.set(cacheKey, { data, timestamp: Date.now() })
cacheSet(key, data) ==
    [k \in DOMAIN cache \cup {key} |->
        IF k = key THEN [data |-> data, timestamp |-> now] ELSE cache[k]]

\* this.cache.delete(key)
cacheDelete(key) == [k \in DOMAIN cache \ {key} |-> cache[k]]

\* the cache with the entry of characterId dropped when its request fails
cacheAfterDroppingFailed(characterId, outcome) ==
    IF accepted(outcome) THEN cacheSet(cacheKey(characterId), outcome.data)
    ELSE cacheDelete(cacheKey(characterId))

\* the cache after the upstream request for characterId ended (lines 23-48)
cacheAfter(characterId, outcome) ==
    IF accepted(outcome) THEN cacheSet(cacheKey(characterId), outcome.data)
    ELSE cache

\* the message of the error the try block of lines 22-44 throws
errorMessage(outcome) ==
    CASE outcome.kind = "networkError" -> "fetch failed"
      [] outcome.kind = "notOk" -> "HTTP status"
      [] outcome.kind = "syntaxError" -> "Unexpected token"
      [] outcome.kind = "null" -> "Cannot read properties of null"
      [] OTHER -> "Invalid response structure"

\* what a step hands to a caller
NoEvent == [op |-> "none"]

\* clearCache(characterId?) returned
Cleared(characterId) == [op |-> "clear", arg |-> characterId]

\* fetchCharacterFrameData(id) issued the upstream fetch and awaits it
Started(characterId) ==
    [op |-> "fetch", id |-> characterId, pc |-> "fetch", hit |-> FALSE,
     expired |-> cacheKey(characterId) \in DOMAIN cache, data |-> NoData,
     message |-> ""]

\* fetchCharacterFrameData(id) returned data: from the cache or from upstream
Returned(characterId, hit, data) ==
    [op |-> "fetch", id |-> characterId, pc |-> "resolved", hit |-> hit,
     expired |-> FALSE, data |-> data, message |-> ""]

\* fetchCharacterFrameData(id) threw
\* Error(`Failed to fetch frame data for ${characterId}: ${message}`)
Threw(characterId, message) ==
    [op |-> "fetch", id |-> characterId, pc |-> "rejected", hit |-> FALSE,
     expired |-> FALSE, data |-> NoData, message |-> message]

\* the promise of a call whose upstream request ended
settled(characterId, outcome) ==
    IF accepted(outcome) THEN Returned(characterId, FALSE, outcome.data)
    ELSE Threw(characterId, errorMessage(outcome))

-----------------------------------------------------------------------------
(* buildMatchupContext.                                                    *)

DevilJin == <<"D", "e", "v", "i", "l", " ", "J", "i", "n">>
Kazuya == <<"K", "a", "z", "u", "y", "a">>

Dragunov == <<"D", "r", "a", "g", "u", "n", "o", "v">>

\* a player list of one fast move that is plus on block, and an opponent
\* list of one move that is -31 on block
ScenarioPlayerMoves ==
    << [moveNumber |-> 1, command |-> "1,1,2", startup |-> <<"1", "0">>,
        block |-> <<"+", "5">>, hit |-> <<>>, counterHit |-> <<>>, notes |-> <<>>] >>

ScenarioOpponentMoves ==
    << [moveNumber |-> 1, command |-> "db+3+4", startup |-> <<>>,
        block |-> <<"-", "3", "1">>, hit |-> <<>>, counterHit |-> <<>>, notes |-> <<>>] >>

\* the local sample data: the characters it holds, and their move lists
sampleFrameData == [id \in {toCharacterId(DevilJin)} |-> MoveList(<<4, 1>>, 2)]

hasSample(id) == id \in DOMAIN sampleFrameData /\ sampleFrameData[id] # <<>>

\* one side of a build: its data is local, awaited from upstream, or there
Local(data) == [status |-> "local", data |-> data]
Pending == [status |-> "pending", data |-> NoData]
Resolved(data) == [status |-> "resolved", data |-> data]

\* lines 17-37 and 44-45: local sample data, else fetchCharacterFrameData(id)
\* up to its first await
startSide(id) ==
    IF hasSample(id) THEN Local(Response(Array(sampleFrameData[id])))
    ELSE IF cacheHit(id) THEN Resolved(cache[cacheKey(id)].data)
    ELSE Pending

\* lines 53-59
fallbackData == Response(Array(<<>>))

\* the move lists a build can see
KnownLists ==
    UpstreamLists \cup {sampleFrameData[id] : id \in DOMAIN sampleFrameData}
                  \cup {ScenarioPlayerMoves, ScenarioOpponentMoves}

\* identifyKeyMoves and identifyPunishableMoves, tabulated over those lists
keyMovesOf == [l \in KnownLists |-> identifyKeyMoves(l)]
punishableMovesOf == [l \in KnownLists |-> identifyPunishableMoves(l)]

\* the context with each selection taken from the other side's list
contextOfExchanged(playerCharacter, opponentCharacter, playerData, opponentData) ==
    Const(playerData.framesNormal.items, LAMBDA playerMoves :
    Const(opponentData.framesNormal.items, LAMBDA opponentMoves :
        [playerCharacter |-> playerCharacter,
         opponentCharacter |-> opponentCharacter,
         playerMoves |-> playerMoves,
         opponentMoves |-> opponentMoves,
         playerKeyMoves |->
            IF Len(opponentMoves) > 0 THEN keyMovesOf[opponentMoves] ELSE <<>>,
         opponentPunishableMoves |->
            IF Len(playerMoves) > 0
            THEN punishableMovesOf[playerMoves] ELSE <<>>]))

\* lines 65-82
contextOf(playerCharacter, opponentCharacter, playerData, opponentData) ==
    Const(playerData.framesNormal.items, LAMBDA playerMoves :
    Const(opponentData.framesNormal.items, LAMBDA opponentMoves :
        [playerCharacter |-> playerCharacter,
         opponentCharacter |-> opponentCharacter,
         playerMoves |-> playerMoves,
         opponentMoves |-> opponentMoves,
         playerKeyMoves |->
            IF Len(playerMoves) > 0 THEN keyMovesOf[playerMoves] ELSE <<>>,
         opponentPunishableMoves |->
            IF Len(opponentMoves) > 0
            THEN punishableMovesOf[opponentMoves] ELSE <<>>]))

\* lines 47-48 and 60-61: a side's data after the await; in the catch branch
\* only local data survives
sideData(side, caught) ==
    IF side.status = "local" THEN side.data
    ELSE IF caught THEN fallbackData
    ELSE side.data

\* a caller at `await Promise.all`: buildMatchupContext (sides 1 and 2 are the
\* player and the opponent) or fetchMultipleCharacters (one side per id)
Awaiting(op, names, ids, sides) ==
    [op |-> op, names |-> names, ids |-> ids, sides |-> sides]

\* buildMatchupContext returned; caught tells whether a fetch had failed
Built(b, caught) ==
    [op |-> "build", caught |-> caught,
     context |-> contextOf(b.names[1], b.names[2],
                           sideData(b.sides[1], caught), sideData(b.sides[2], caught))]

\* fetchMultipleCharacters returned the data of its ids, in their order
ReturnedAll(g) ==
    [op |-> "multiple", pc |-> "resolved",
     data |-> [i \in DOMAIN g.sides |-> g.sides[i].data], message |-> ""]

\* fetchMultipleCharacters threw the error of the first call that failed
ThrewAll(message) ==
    [op |-> "multiple", pc |-> "rejected", data |-> <<>>, message |-> message]

sideId(b, side) == b.ids[side]

pendingSides(b) == {side \in DOMAIN b.sides : b.sides[side].status = "pending"}

\* the fetches in flight for build b: all of them, or those of one id
pendingOf(b, ids) == {side \in pendingSides(b) : sideId(b, side) \in ids}

RECURSIVE SumPending(_, _)
SumPending(bs, ids) ==
    IF bs = {} THEN 0
    ELSE LET b == CHOOSE x \in bs : TRUE
         IN CopiesIn(b, builds) * Cardinality(pendingOf(b, ids))
            + SumPending(bs \ {b}, ids)

-----------------------------------------------------------------------------
(* The operations.                                                         *)

\* the id fetchCharacterFrameData is called with directly: 'kazuya'
DirectIds == {toCharacterId(Kazuya)}

\* the arguments of clearCache: none, '' and 'kazuya'
ClearArgs == {Missing, Some(<<>>)} \cup {Some(id) : id \in DirectIds}

\* the lists fetchMultipleCharacters is called with: [] and
\* ['kazuya', 'kazuya']
IdLists == {<<>>, <<toCharacterId(Kazuya), toCharacterId(Kazuya)>>}

\* the display names buildMatchupContext is called with; '' is the form's
\* value before a character is chosen
DisplayNames == {DevilJin, Kazuya, Dragunov, <<>>}

Matchups == {<<DevilJin, DevilJin>>, <<DevilJin, Kazuya>>, <<Kazuya, <<>>>>}

\* toCharacterId of each display name in use
characterIdOf == [name \in DisplayNames |-> toCharacterId(name)]

\* every character id in use
AllIds == DirectIds \cup {characterIdOf[name] : name \in DisplayNames}

\* the upstream fetches in flight
pendingCount == BagCardinality(calls) + SumPending(BagToSet(builds), AllIds)

\* the upstream fetches in flight for one character id
inFlight(id) == CopiesIn(id, calls) + SumPending(BagToSet(builds), {id})

\* the client after construction, at time 0, with nothing called yet
CacheIdle ==
    /\ cache = EmptyCache
    /\ now = 0
    /\ calls = EmptyBag
    /\ builds = EmptyBag
    /\ last = NoEvent

\* a caller invokes fetchCharacterFrameData(characterId): lines 9-27
FetchCharacterFrameData(characterId) ==
    /\ IF cacheHit(characterId)
       THEN /\ last' = Returned(characterId, TRUE, cache[cacheKey(characterId)].data)
            /\ UNCHANGED calls
       ELSE /\ pendingCount < MaxPending
            /\ calls' = calls (+) SetToBag({characterId})
            /\ last' = Started(characterId)
    /\ UNCHANGED <<cache, now, builds>>
    /\ UNCHANGED pureVars

\* the upstream request of a call ends, and the call runs from `await fetch`
\* to its return or throw (lines 23-48); the step from the response to its
\* parsed body changes nothing another caller can see
FetchSettles(characterId, outcome) ==
    /\ BagIn(characterId, calls)
    /\ calls' = calls (-) SetToBag({characterId})
    /\ cache' = cacheAfter(characterId, outcome)
    /\ last' = settled(characterId, outcome)
    /\ UNCHANGED <<now, builds>>
    /\ UNCHANGED pureVars

\* clearCache(characterId?): an absent or empty argument is falsy
ClearCache(characterId) ==
    /\ cache' = IF characterId.present /\ characterId.text # <<>>
                THEN cacheDelete(cacheKey(characterId.text))
                ELSE EmptyCache
    /\ last' = Cleared(characterId)
    /\ UNCHANGED <<now, calls, builds>>
    /\ UNCHANGED pureVars

\* time passes, up to instant t
Tick(t) ==
    /\ t > now
    /\ now' = t
    /\ last' = NoEvent
    /\ UNCHANGED <<cache, calls, builds>>
    /\ UNCHANGED pureVars

\* a caller invokes buildMatchupContext: with no fetch to await it returns,
\* else it stays at `await Promise.all` (lines 10-46)
BuildMatchupContext(playerCharacter, opponentCharacter) ==
    LET playerCharId == characterIdOf[playerCharacter]
        opponentCharId == characterIdOf[opponentCharacter]
        b == Awaiting("build", <<playerCharacter, opponentCharacter>>,
                      <<playerCharId, opponentCharId>>,
                      <<startSide(playerCharId), startSide(opponentCharId)>>)
    IN /\ IF pendingSides(b) = {}
          THEN /\ last' = Built(b, FALSE)
               /\ UNCHANGED builds
          ELSE /\ pendingCount + Cardinality(pendingSides(b)) <= MaxPending
               /\ builds' = builds (+) SetToBag({b})
               /\ last' = NoEvent
       /\ UNCHANGED <<cache, now, calls>>
       /\ UNCHANGED pureVars

\* a caller invokes fetchMultipleCharacters(characterIds): every id's call
\* runs up to its first await, and the caller awaits Promise.all (line 52)
FetchMultipleCharacters(characterIds) ==
    LET g == Awaiting("multiple", characterIds, characterIds,
                      [i \in DOMAIN characterIds |->
                          IF cacheHit(characterIds[i])
                          THEN Resolved(cache[cacheKey(characterIds[i])].data)
                          ELSE Pending])
    IN /\ IF pendingSides(g) = {}
          THEN /\ last' = ReturnedAll(g)
               /\ UNCHANGED builds
          ELSE /\ pendingCount + Cardinality(pendingSides(g)) <= MaxPending
               /\ builds' = builds (+) SetToBag({g})
               /\ last' = NoEvent
       /\ UNCHANGED <<cache, now, calls>>
       /\ UNCHANGED pureVars

\* the other calls of b cancelled with the one that failed
othersCancelled(b, sides) == EmptyBag

\* the calls of b still in flight besides that of side, as a bag of ids
RECURSIVE othersInFlight(_, _)
othersInFlight(b, sides) ==
    IF sides = {} THEN EmptyBag
    ELSE LET i == CHOOSE x \in sides : TRUE
         IN SetToBag({sideId(b, i)}) (+) othersInFlight(b, sides \ {i})

\* the upstream request of one side of an awaiting caller b ends. A failure
\* rejects Promise.all: buildMatchupContext runs its catch branch and returns,
\* fetchMultipleCharacters throws, and the calls of the other sides, if in
\* flight, go on with nobody awaiting them. A success fulfils Promise.all once
\* every other side is there too (matchup-context.ts lines 43-82).
BuildFetchSettles(b, side, outcome) ==
    LET id == sideId(b, side)
        b2 == [b EXCEPT !.sides[side] = Resolved(outcome.data)]
        others == pendingSides(b) \ {side}
    IN /\ BagIn(b, builds)
       /\ side \in pendingSides(b)
       /\ cache' = cacheAfter(id, outcome)
       /\ IF ~accepted(outcome)
          THEN /\ builds' = builds (-) SetToBag({b})
               /\ calls' = calls (+) othersInFlight(b, others)
               /\ last' = IF b.op = "build" THEN Built(b, TRUE)
                          ELSE ThrewAll(errorMessage(outcome))
          ELSE IF others # {}
          THEN /\ builds' = (builds (-) SetToBag({b})) (+) SetToBag({b2})
               /\ last' = settled(id, outcome)
               /\ UNCHANGED calls
          ELSE /\ builds' = builds (-) SetToBag({b})
               /\ last' = IF b.op = "build" THEN Built(b2, FALSE)
                          ELSE ReturnedAll(b2)
               /\ UNCHANGED calls
       /\ UNCHANGED now
       /\ UNCHANGED pureVars

-----------------------------------------------------------------------------
(* The cache and the builder under concurrent callers.                     *)

\* the k-th instant the clock is read at: the start, then a millisecond
\* before, at, and a millisecond after each multiple of the TTL
instant(k) ==
    IF k = 0 THEN 0
    ELSE ((k + 2) \div 3) * cacheTTL
         + (IF (k + 1) % 3 = 0 THEN 0 ELSE IF (k + 1) % 3 = 1 THEN 1 ELSE -1)

Instants == {instant(k) : k \in 0..MaxTicks}

Init ==
    /\ CacheIdle
    /\ moves = <<>>
    /\ punishMoves = <<>>
    /\ keyOut = NotRun
    /\ punOut = NotRun
    /\ optimalOut = NotRun
    /\ rawText = <<>>
    /\ parsed = NotParsed
    /\ reparsed = NotParsed
    /\ FallbackIdle
    /\ ResolveIdle

Next ==
    \/ \E id \in DirectIds : FetchCharacterFrameData(id)
    \/ \E id \in BagToSet(calls) : \E o \in OutcomesOf(id) : FetchSettles(id, o)
    \/ \E a \in ClearArgs : ClearCache(a)
    \/ \E t \in Instants : Tick(t)
    \/ \E m \in Matchups : BuildMatchupContext(m[1], m[2])
    \/ \E ids \in IdLists : FetchMultipleCharacters(ids)
    \/ \E b \in BagToSet(builds) : \E side \in pendingSides(b) :
          \E o \in OutcomesOf(sideId(b, side)) : BuildFetchSettles(b, side, o)

Spec == Init /\ [][Next]_vars

-----------------------------------------------------------------------------
(* Properties of the cache and the builder.                                *)

\* the cache holds an entry for characterId, and the entry's age
held(characterId) == cacheKey(characterId) \in DOMAIN cache

age(characterId) == now - cache[cacheKey(characterId)].timestamp

\* a side of a build that needs no upstream fetch: it has local sample data, or
\* a cache entry younger than the TTL
served(id) == hasSample(id) \/ (held(id) /\ age(id) < cacheTTL)

\* the move list a build gets for such a side
servedItems(id) ==
    IF hasSample(id) THEN sampleFrameData[id]
    ELSE cache[cacheKey(id)].data.framesNormal.items

\* C1: at no time are two upstream fetches for the same character id in
\* flight; a caller arriving while one is outstanding starts no second one.
C1_AtMostOneInFlight == \A id \in AllIds : inFlight(id) <= 1

\* C2: a call for an id whose cache entry is younger than the TTL returns
\* exactly the cached data and starts no upstream fetch, and so does a build
\* whose two sides are served from the cache or from the local data (a step
\* of buildMatchupContext hands over a context or nothing).
C2_CacheHit ==
    [][/\ \A id \in DirectIds :
            held(id) /\ age(id) < cacheTTL /\ FetchCharacterFrameData(id) =>
                /\ last' = Returned(id, TRUE, cache[cacheKey(id)].data)
                /\ pendingCount' = pendingCount
                /\ cache' = cache
       /\ \A m \in Matchups :
            /\ served(characterIdOf[m[1]])
            /\ served(characterIdOf[m[2]])
            /\ last'.op \in {"build", "none"}
            /\ BuildMatchupContext(m[1], m[2])
            => /\ last'.op = "build"
               /\ last'.context.playerMoves = servedItems(characterIdOf[m[1]])
               /\ last'.context.opponentMoves = servedItems(characterIdOf[m[2]])
               /\ pendingCount' = pendingCount
               /\ cache' = cache]_vars

\* a call was answered from an entry one millisecond short of the TTL, with a
\* non-empty move list
C2_Witness ==
    /\ last.op = "fetch"
    /\ last.hit
    /\ held(last.id)
    /\ age(last.id) = cacheTTL - 1
    /\ last.data = cache[cacheKey(last.id)].data
    /\ last.data.framesNormal.items # <<>>

\* C3: a build whose retrieval of either side failed returns no context.
C3_AllOrNothing == last.op = "build" => ~last.caught

\* an upstream answer of a status that is not ok, or whose body has no list
malformed(outcome) ==
    \/ outcome.kind = "notOk"
    \/ /\ outcome.kind \in {"null", "object"}
       /\ outcome.data.framesNormal.type # "array"

\* C4: every entry of the cache holds a response whose framesNormal is a
\* list, and a fetch that ends in a status that is not ok or in a body without
\* such a list leaves the cache as it was: no step that changes the cache is
\* the end of such a fetch.
C4_NoMalformedCached ==
    [][/\ \A k \in DOMAIN cache' : cache'[k].data.framesNormal.type = "array"
       /\ cache' # cache =>
            \A o \in {x \in UpstreamOutcomes : malformed(x)} :
                /\ \A id \in BagToSet(calls) : ~FetchSettles(id, o)
                /\ \A b \in BagToSet(builds) : \A side \in pendingSides(b) :
                      ~BuildFetchSettles(b, side, o)]_vars

\* a call was rejected for a body without a list, its id has no entry, and
\* the cache holds the entry of another id
C4_Witness ==
    /\ last.op = "fetch"
    /\ last.pc = "rejected"
    /\ last.message = "Invalid response structure"
    /\ ~held(last.id)
    /\ cache # EmptyCache

\* C5: a call never returns a zero-length move list as a success.
C5_EmptyListFails ==
    last.op = "fetch" /\ last.pc = "resolved" =>
        last.data.framesNormal.items # <<>>

\* C6: an entry is written only by a fetch that completes, with the time of
\* completion as its timestamp; a call never changes the cache; a call is
\* answered from the cache only while the entry's age is below the TTL, and a
\* call on an entry whose age has reached the TTL starts an upstream fetch.
C6_ExpiryFromCompletion ==
    [][/\ \A k \in DOMAIN cache' :
            k \notin DOMAIN cache \/ cache'[k] # cache[k] =>
                /\ cache'[k].timestamp = now
                /\ now' = now
                /\ pendingCount' < pendingCount
       /\ \A id \in DirectIds :
            FetchCharacterFrameData(id) =>
                /\ cache' = cache
                /\ last'.hit => held(id) /\ age(id) < cacheTTL
                /\ held(id) /\ age(id) >= cacheTTL =>
                      /\ last' = Started(id)
                      /\ last'.expired
                      /\ inFlight(id)' = inFlight(id) + 1]_vars

\* a call met an entry whose age is exactly the TTL and started a fetch
C6_Witness ==
    /\ last.op = "fetch"
    /\ last.pc = "fetch"
    /\ last.expired
    /\ held(last.id)
    /\ age(last.id) = cacheTTL
    /\ inFlight(last.id) > 0

\* C7: clearCache with an id removes the entry of that id and leaves every
\* other entry unchanged; clearCache without an argument removes all entries.
C7_ClearExactlyOne ==
    [][\A a \in ClearArgs :
          ClearCache(a) =>
              cache' = IF a.present
                       THEN [k \in DOMAIN cache \ {cacheKey(a.text)} |-> cache[k]]
                       ELSE EmptyCache]_vars

-----------------------------------------------------------------------------
(* The classifiers as operations on a given input.                         *)

\* buildMatchupContext, the player's side: key moves of a non-empty list
ClassifyKeyMoves ==
    /\ ~keyOut.ran
    /\ keyOut' = Ran(IF Len(moves) > 0 THEN identifyKeyMoves(moves) ELSE <<>>)
    /\ moves' = IF Len(moves) > 0 THEN movesAfterIdentify(moves, "key") ELSE moves
    /\ UNCHANGED <<punOut, punishMoves, optimalOut>>
    /\ UNCHANGED cacheVars
    /\ UNCHANGED fallbackVars
    /\ UNCHANGED resolveVars
    /\ UNCHANGED parseVars

\* buildMatchupContext, the opponent's side
ClassifyPunishableMoves ==
    /\ ~punOut.ran
    /\ punOut' = Ran(IF Len(moves) > 0 THEN identifyPunishableMoves(moves) ELSE <<>>)
    /\ moves' = IF Len(moves) > 0 THEN movesAfterIdentify(moves, "punishable")
                ELSE moves
    /\ UNCHANGED <<keyOut, punishMoves, optimalOut>>
    /\ UNCHANGED cacheVars
    /\ UNCHANGED fallbackVars
    /\ UNCHANGED resolveVars
    /\ UNCHANGED parseVars

\* analyzeWithOllama's fallback: the windows of the player's punish moves
BuildOptimalPunishes ==
    /\ ~optimalOut.ran
    /\ optimalOut' = Ran(optimalPunishes(punishMoves))
    /\ UNCHANGED <<moves, keyOut, punOut, punishMoves>>
    /\ UNCHANGED cacheVars
    /\ UNCHANGED fallbackVars
    /\ UNCHANGED resolveVars
    /\ UNCHANGED parseVars

ClassifyInit ==
    /\ CacheIdle
    /\ \E in \in PatternInputs :
        /\ moves = MoveList(in[1], in[2])
        /\ punishMoves = PunishList(in[1], in[2])
    /\ keyOut = NotRun
    /\ punOut = NotRun
    /\ optimalOut = NotRun
    /\ rawText = <<>>
    /\ parsed = NotParsed
    /\ reparsed = NotParsed
    /\ FallbackIdle
    /\ ResolveIdle

ClassifyNext ==
    \/ ClassifyKeyMoves
    \/ ClassifyPunishableMoves
    \/ BuildOptimalPunishes

ClassifySpec == ClassifyInit /\ [][ClassifyNext]_vars

-----------------------------------------------------------------------------
(* Properties of the classifiers.                                          *)

keyCount == Len(SelectSeq(moves, isKeyMove))

\* the numeric reading of a move's block field
blockValue(m) == parseFrameData(m.block)

qualifies(m) == blockValue(m).tag = "Numeric" /\ blockValue(m).n <= -10

qualifyingCount == Cardinality({i \in 1..Len(moves) : qualifies(moves[i])})

returned(out, m) == \E i \in 1..Len(out) : out[i] = m

applicableCount(w) ==
    Cardinality({i \in 1..Len(punishMoves) : inWindow(punishMoves[i], w)})

\* C8: keyMoves returns at most 20 moves, punishableMoves at most 15, and
\* every emitted punish window lists at most 3 candidate moves.
C8_SizeCaps ==
    /\ keyOut.ran => Len(keyOut.out) <= 20
    /\ punOut.ran => Len(punOut.out) <= 15
    /\ optimalOut.ran =>
          \A i \in 1..Len(optimalOut.out) :
              Len(optimalOut.out[i].recommendedMoves) <= 3

\* all three caps cut: more than 20 key moves, more than 15 punishable moves
\* and more than 3 moves of one window went in
C8_Witness ==
    /\ keyOut.ran /\ keyCount > 20 /\ Len(keyOut.out) = 20
    /\ punOut.ran /\ qualifyingCount > 15 /\ Len(punOut.out) = 15
    /\ optimalOut.ran
    /\ \E i \in 1..Len(optimalOut.out) :
          /\ Len(optimalOut.out[i].recommendedMoves) = 3
          /\ \E w \in 1..Len(punishWindows) :
                /\ punishWindows[w].window = optimalOut.out[i].window
                /\ applicableCount(punishWindows[w]) > 3

\* C9: the output of punishableMoves is in ascending order of the numeric
\* block value, a "-31" move precedes every "-10" move, and when more than 15
\* moves qualify the ones kept are the most negative ones.
C9_PunishableRanking ==
    punOut.ran =>
        /\ \A i, j \in 1..Len(punOut.out) :
              i < j => blockValue(punOut.out[i]).n <= blockValue(punOut.out[j]).n
        /\ \A i, j \in 1..Len(punOut.out) :
              /\ punOut.out[i].block = <<"-", "3", "1">>
              /\ punOut.out[j].block = <<"-", "1", "0">>
              => i < j
        /\ \A k \in 1..Len(moves) :
              qualifies(moves[k]) /\ ~returned(punOut.out, moves[k]) =>
                  \A i \in 1..Len(punOut.out) :
                      blockValue(punOut.out[i]).n <= blockValue(moves[k]).n

\* more than 15 qualify, the input had a "-10" move ahead of a "-31" move,
\* and both values are in the output
C9_Witness ==
    /\ punOut.ran
    /\ qualifyingCount > 15
    /\ moves[1].block = <<"-", "1", "0">>
    /\ moves[2].block = <<"-", "3", "1">>
    /\ \E i, j \in 1..Len(punOut.out) :
          /\ punOut.out[i].block = <<"-", "3", "1">>
          /\ punOut.out[j].block = <<"-", "1", "0">>

launcherRule(m) ==
    \/ includes(toLowerCase(m.hit), <<"l", "a", "u", "n", "c", "h">>)
    \/ includes(toLowerCase(m.counterHit), <<"l", "a", "u", "n", "c", "h">>)

fastPokeRule(m) ==
    parseFrameData(m.startup).tag = "Numeric" /\ parseFrameData(m.startup).n <= 12

plusOnBlockRule(m) == blockValue(m).tag = "Numeric" /\ blockValue(m).n > 0

notesRule(m) ==
    \E i \in 1..Len(specialProperties) :
        includes(toLowerCase(m.notes), specialProperties[i])

keyQualifies(m) ==
    launcherRule(m) \/ fastPokeRule(m) \/ plusOnBlockRule(m) \/ notesRule(m)

keyQualifyingCount ==
    Cardinality({i \in 1..Len(moves) : keyQualifies(moves[i])})

C12_LaunchersFirst ==
    keyOut.ran =>
        \A i, j \in 1..Len(keyOut.out) :
            i < j => ~(~launcherRule(keyOut.out[i]) /\ launcherRule(keyOut.out[j]))

\* the input starts with a "+??" move and a "+5" move, neither a launcher,
\* and a launcher follows them: the launcher came out first, ahead of both
C12_Witness ==
    /\ keyOut.ran
    /\ Len(moves) = 3
    /\ moves[1].block = <<"+", "?", "?">> /\ ~launcherRule(moves[1])
    /\ moves[2].block = <<"+", "5">> /\ ~launcherRule(moves[2])
    /\ launcherRule(moves[3])
    /\ Len(keyOut.out) = 3
    /\ keyOut.out[1] = moves[3]

numericBlock(m) == blockValue(m).tag = "Numeric"

\* C13: among the moves of the keyMoves output that are not launchers, those
\* with a numeric block value are in descending order of it, every move with
\* a non-numeric block value comes after all of those with a numeric one, and
\* the non-numeric ones keep the order they had in the input.
C13_RankingBelowLaunchers ==
    keyOut.ran =>
        \A i, j \in 1..Len(keyOut.out) :
            (i < j /\ ~launcherRule(keyOut.out[i]) /\ ~launcherRule(keyOut.out[j])) =>
                /\ (numericBlock(keyOut.out[i]) /\ numericBlock(keyOut.out[j])) =>
                      blockValue(keyOut.out[i]).n >= blockValue(keyOut.out[j]).n
                /\ ~(~numericBlock(keyOut.out[i]) /\ numericBlock(keyOut.out[j]))
                /\ (~numericBlock(keyOut.out[i]) /\ ~numericBlock(keyOut.out[j])) =>
                      keyOut.out[i].moveNumber < keyOut.out[j].moveNumber

\* one move of the list for each command in it
kindsOf(out) ==
    {out[CHOOSE i \in 1..Len(out) : out[i].command = c] :
        c \in {out[i].command : i \in 1..Len(out)}}

\* the ranking of keyMoves: a at or ahead of b
keyAtOrAhead(a, b) == keyCompare(a, b) <= 0

\* the ranking of punishableMoves: a at or ahead of b
punishableAtOrAhead(a, b) ==
    ~isNaN(punishableCompare(a, b)) /\ punishableCompare(a, b).n <= 0

keyRankingConsistent ==
    \A a, b \in kindsOf(keyOut.out) :
        /\ keyAtOrAhead(a, b) \/ keyAtOrAhead(b, a)
        /\ (keyCompare(a, b) < 0) = (keyCompare(b, a) > 0)
        /\ \A c \in kindsOf(keyOut.out) :
              keyAtOrAhead(a, b) /\ keyAtOrAhead(b, c) => keyAtOrAhead(a, c)

punishableRankingConsistent ==
    \A a, b \in kindsOf(punOut.out) :
        /\ punishableAtOrAhead(a, b) \/ punishableAtOrAhead(b, a)
        /\ \A c \in kindsOf(punOut.out) :
              punishableAtOrAhead(a, b) /\ punishableAtOrAhead(b, c) =>
                  punishableAtOrAhead(a, c)

keyTiesInInputOrder ==
    \A i, j \in 1..Len(keyOut.out) :
        (i < j /\ keyCompare(keyOut.out[i], keyOut.out[j]) = 0
               /\ keyCompare(keyOut.out[j], keyOut.out[i]) = 0) =>
            keyOut.out[i].moveNumber < keyOut.out[j].moveNumber

punishableTiesInInputOrder ==
    \A i, j \in 1..Len(punOut.out) :
        (i < j /\ punishableAtOrAhead(punOut.out[i], punOut.out[j])
               /\ punishableAtOrAhead(punOut.out[j], punOut.out[i])) =>
            punOut.out[i].moveNumber < punOut.out[j].moveNumber

\* C14: the ranking keyMoves sorts by and the ranking punishableMoves sorts
\* by are each a consistent order (any two moves comparable, the two
\* directions of a comparison agreeing, at-or-ahead transitive), and two
\* moves that tie are returned in the order they had in the input.
C14_ConsistentTotalOrder ==
    /\ keyOut.ran => keyRankingConsistent /\ keyTiesInInputOrder
    /\ punOut.ran => punishableRankingConsistent /\ punishableTiesInInputOrder

-----------------------------------------------------------------------------
(* parseFrameData as an operation on a given raw text.                     *)

\* the characters raw texts are built from
TextAlphabet == {"+", "-", "1", "2", "a", "~"}

\* texts of the frame-data fields of TekkenDocs and of the documentation
ReferenceTexts == {
    <<"+", "1", "1">>,
    <<"-", "3", "1">>,
    <<"L", "a", "u", "n", "c", "h">>,
    <<"K", "N", "D">>,
    <<"1", "7", "-", "1", "8">>,
    <<"1", "3", "~", "1", "4">>,
    <<"1", "2", "a", "b", "c">>,
    <<"+", "?", "?">> }

RawTexts ==
    ReferenceTexts \cup UNION {[1..n -> TextAlphabet] : n \in 0..MaxTextLen}

\* a caller invokes parseFrameData(rawText)
ParseFrameData ==
    /\ ~parsed.done
    /\ parsed' = Parsed(parseFrameData(rawText))
    /\ UNCHANGED <<rawText, reparsed>>
    /\ UNCHANGED <<moves, keyOut, punOut, punishMoves, optimalOut>>
    /\ UNCHANGED cacheVars
    /\ UNCHANGED fallbackVars
    /\ UNCHANGED resolveVars

\* a caller invokes parseFrameData(rawText) once more
ParseFrameDataAgain ==
    /\ parsed.done
    /\ ~reparsed.done
    /\ reparsed' = Parsed(parseFrameData(rawText))
    /\ UNCHANGED <<rawText, parsed>>
    /\ UNCHANGED <<moves, keyOut, punOut, punishMoves, optimalOut>>
    /\ UNCHANGED cacheVars
    /\ UNCHANGED fallbackVars
    /\ UNCHANGED resolveVars

ParseInit ==
    /\ CacheIdle
    /\ moves = <<>>
    /\ punishMoves = <<>>
    /\ keyOut = NotRun
    /\ punOut = NotRun
    /\ optimalOut = NotRun
    /\ rawText \in RawTexts
    /\ parsed = NotParsed
    /\ reparsed = NotParsed
    /\ FallbackIdle
    /\ ResolveIdle

ParseNext ==
    \/ ParseFrameData
    \/ ParseFrameDataAgain

ParseSpec == ParseInit /\ [][ParseNext]_vars

-----------------------------------------------------------------------------
(* Properties of parseFrameData.                                           *)

hasDigit(t) == \E i \in 1..Len(t) : t[i] \in {DecDigits[k] : k \in 1..Len(DecDigits)}

Numeric(n, t) == [tag |-> "Numeric", n |-> n, raw |-> t]
AsIs(t) == [tag |-> "Raw", n |-> 0, raw |-> t]

\* what the reference texts with a number in them parse to
numericReferences ==
    /\ rawText = <<"+", "1", "1">> => parsed.result = Numeric(11, rawText)
    /\ rawText = <<"-", "3", "1">> => parsed.result = Numeric(-31, rawText)
    /\ rawText = <<"1", "7", "-", "1", "8">> => parsed.result = Numeric(17, rawText)
    /\ rawText = <<"1", "3", "~", "1", "4">> => parsed.result = Numeric(13, rawText)

isDigit(c) == c \in {DecDigits[k] : k \in 1..Len(DecDigits)}

\* the text without one leading sign, if it has one
withoutLeadingSign(t) ==
    IF t # <<>> /\ t[1] \in {"+", "-"} THEN Tail(t) ELSE t

\* the text, one leading sign apart, is digits from end to end
entireInteger(t) ==
    /\ withoutLeadingSign(t) # <<>>
    /\ \A i \in 1..Len(withoutLeadingSign(t)) : isDigit(withoutLeadingSign(t)[i])

\* C17: parseFrameData returns a number exactly for the texts that, one
\* leading sign apart, are an integer from end to end; "12abc", digits
\* followed by other characters, and "1+2", a '+' after the front, do not
\* parse to a number.
C17_NumericIffEntireInteger ==
    parsed.done =>
        /\ (parsed.result.tag = "Numeric") = entireInteger(rawText)
        /\ rawText = <<"1", "2", "a", "b", "c">> => parsed.result.tag # "Numeric"
        /\ rawText = <<"1", "+", "2">> => parsed.result.tag # "Numeric"

-----------------------------------------------------------------------------
(* Properties of the punish windows.                                       *)

emitted(name) ==
    \E i \in 1..Len(optimalOut.out) : optimalOut.out[i].window = name

windowsOf(move) ==
    {w \in 1..Len(punishWindows) : inWindow(move, punishWindows[w])}

\* the move states a startup, and it reads as a number
numericStartup(move) ==
    /\ move.StartUpFrame.present
    /\ hasDigit(move.StartUpFrame.text)
    /\ ~isNaN(windowStartup(move))

\* C19: the five windows are pairwise disjoint and every punish move with a
\* numeric startup of 9 or more, 100 and more included, is a candidate of
\* exactly one of them.
C19_BucketPartition ==
    optimalOut.ran =>
        \A k \in 1..Len(punishMoves) :
            /\ Cardinality(windowsOf(punishMoves[k])) <= 1
            /\ (numericStartup(punishMoves[k]) /\ windowStartup(punishMoves[k]).n >= 9) =>
                  Cardinality(windowsOf(punishMoves[k])) = 1

\* the move states no startup, an empty one or one without a number in it
unparseableStartup(move) ==
    \/ ~move.StartUpFrame.present
    \/ ~hasDigit(move.StartUpFrame.text)

listed(move) ==
    /\ hasCommand(move)
    /\ \E i \in 1..Len(optimalOut.out) :
          \E j \in 1..Len(optimalOut.out[i].recommendedMoves) :
              optimalOut.out[i].recommendedMoves[j] = move.Command.text

\* C20: a punish move whose startup is missing, empty or without a number is
\* a candidate of no window, the 15f+ window included, and is listed in no
\* window of the output.
C20_UnparseableInNoWindow ==
    optimalOut.ran =>
        \A k \in 1..Len(punishMoves) :
            unparseableStartup(punishMoves[k]) =>
                /\ windowsOf(punishMoves[k]) = {}
                /\ ~listed(punishMoves[k])

-----------------------------------------------------------------------------
(* The fallback analysis as an operation on given punish data.             *)

\* the lists of up to MaxFallbackLen entries of a catalogue
ListsOver(catalog) ==
    UNION {{[i \in 1..n |-> catalog[p[i]]] : p \in [1..n -> 1..Len(catalog)]} :
              n \in 0..MaxFallbackLen}

\* list l repeated up to n entries
RepeatTo(l, n) == [i \in 1..n |-> l[((i - 1) % Len(l)) + 1]]

\* the punishable moves of the opponent: short lists, and lists long enough
\* for the schema's minimum of punishOptions
PunishableLists ==
    ListsOver(PunishableCatalog)
    \cup {RepeatTo(l, MinPunishOptions) : l \in ListsOver(PunishableCatalog) \ {<<>>}}

FallbackPunishLists == ListsOver(FallbackPunishCatalog)

\* validation of the model's response failed: lines 282-397
BuildFallback ==
    /\ ~fallback.done
    /\ fallback' = Analysis(fallbackAnalysis(punishableMoves, punishMoves))
    /\ UNCHANGED <<punishableMoves, punishMoves, moves, keyOut, punOut, optimalOut>>
    /\ UNCHANGED cacheVars
    /\ UNCHANGED parseVars
    /\ UNCHANGED resolveVars

FallbackInit ==
    /\ CacheIdle
    /\ moves = <<>>
    /\ keyOut = NotRun
    /\ punOut = NotRun
    /\ optimalOut = NotRun
    /\ rawText = <<>>
    /\ parsed = NotParsed
    /\ reparsed = NotParsed
    /\ ResolveIdle
    /\ punishableMoves \in PunishableLists
    /\ punishMoves \in FallbackPunishLists
    /\ fallback = NoAnalysis

FallbackNext == BuildFallback

FallbackSpec == FallbackInit /\ [][FallbackNext]_vars

-----------------------------------------------------------------------------
(* Properties of the fallback analysis.                                    *)

\* the block frame an opponent move states, and the startup a punish move
\* states, as numbers
statedBlock(oppMove) ==
    IF oppMove.BlockFrame.present THEN parseFrameData(oppMove.BlockFrame.text)
    ELSE [tag |-> "Raw", n |-> 0, raw |-> <<>>]

statedStartup(punishMove) ==
    IF punishMove.StartUpFrame.present
    THEN parseFrameData(SplitFirst(punishMove.StartUpFrame.text, " "))
    ELSE [tag |-> "Raw", n |-> 0, raw |-> <<>>]

bothNumeric(i) ==
    /\ statedBlock(punishableMoves[i]).tag = "Numeric"
    /\ Len(punishMoves) > 0
    /\ statedStartup(punishMoveAt(punishMoves, i - 1)).tag = "Numeric"

printedAdvantage(i) == fallback.analysis.punishOptions[i].frameAdvantage.printed

\* what a pairing whose advantage is not known would print
ReportedUnknown == [unknown |-> TRUE]

\* C21: the frame advantage of the i-th pairing is the absolute value of the
\* opponent move's block frame minus the punish move's startup when both
\* are stated as numbers, and is reported as unknown otherwise: the option is
\* there, and what is printed is neither a number nor not-a-number.
C21_FrameAdvantage ==
    fallback.done =>
        /\ Len(fallback.analysis.punishOptions) = Len(punishableMoves)
        /\ \A i \in 1..Len(punishableMoves) :
              IF bothNumeric(i)
              THEN printedAdvantage(i) =
                      Num(Abs(statedBlock(punishableMoves[i]).n)
                          - statedStartup(punishMoveAt(punishMoves, i - 1)).n)
              ELSE printedAdvantage(i) = ReportedUnknown

-----------------------------------------------------------------------------
(* One matchup end to end: the upstream source answers with the player     *)
(* list for 'kazuya' and with the opponent list for 'dragunov'.            *)

ScenarioMatchups == {<<Kazuya, Dragunov>>, <<DevilJin, Dragunov>>}

\* the request for a character fails, or answers with the character's list
ScenarioOutcomes(characterId) ==
    {[kind |-> "networkError", data |-> Response(Undefined)],
     [kind |-> "object",
      data |-> Response(Array(IF characterId = toCharacterId(Dragunov)
                              THEN ScenarioOpponentMoves
                              ELSE ScenarioPlayerMoves))]}

ScenarioNext ==
    \/ \E m \in ScenarioMatchups : BuildMatchupContext(m[1], m[2])
    \/ \E b \in BagToSet(builds) : \E side \in pendingSides(b) :
          \E o \in ScenarioOutcomes(sideId(b, side)) : BuildFetchSettles(b, side, o)
    \/ \E id \in BagToSet(calls) : \E o \in ScenarioOutcomes(id) : FetchSettles(id, o)
    \/ \E t \in Instants : Tick(t)
    \/ ClearCache(Missing)

ScenarioSpec == Init /\ [][ScenarioNext]_vars

\* buildMatchupContext has just returned the context of the two lists
scenarioBuilt ==
    /\ last.op = "build"
    /\ last.context.playerMoves = ScenarioPlayerMoves
    /\ last.context.opponentMoves = ScenarioOpponentMoves

commandsOf(list) == {list[i].command : i \in 1..Len(list)}

-----------------------------------------------------------------------------
(* Fetches that outlive their caller, failures, and clears.                *)

\* build b returns from its catch branch in this step
buildFails(b) ==
    /\ b.op = "build"
    /\ CopiesIn(b, builds') < CopiesIn(b, builds)
    /\ last'.op = "build"
    /\ last'.caught

\* C23: when one of the two fetches of a build fails, the other is not
\* cancelled: it stays in flight, and one fetch less is in flight than
\* before. A fetch nobody awaits that ends in a valid response returns it
\* and caches it, so that a call for its id at that time is a hit.
C23_SurvivorCachesResult ==
    [][/\ \A b \in BagToSet(builds) :
            buildFails(b) /\ Cardinality(pendingSides(b)) = 2 =>
                /\ pendingCount' = pendingCount - 1
                /\ \E side \in pendingSides(b) :
                      CopiesIn(sideId(b, side), calls')
                          = CopiesIn(sideId(b, side), calls) + 1
       /\ \A id \in AllIds :
            /\ CopiesIn(id, calls') < CopiesIn(id, calls)
            /\ last'.op = "fetch"
            /\ last'.pc = "resolved"
            => /\ cacheHit(id)'
               /\ cache'[cacheKey(id)].data = last'.data]_vars

\* the fetch for '' that a failed build left in flight has returned a list,
\* and a call for '' would now be a hit: only a build calls for ''
C23_Witness ==
    /\ last.op = "fetch"
    /\ last.pc = "resolved"
    /\ last.id = <<>>
    /\ ~last.hit
    /\ builds = EmptyBag
    /\ cacheHit(<<>>)

-----------------------------------------------------------------------------
(* One display name of the roster, resolved by the builder and by the      *)
(* fallback of analyzeWithOllama.                                          *)

Roster == {TEKKEN8_CHARACTERS[i] : i \in 1..Len(TEKKEN8_CHARACTERS)}

\* buildMatchupContext: const playerCharId = toCharacterId(playerCharacter)
ResolveForContext ==
    /\ ~contextCharId.done
    /\ contextCharId' = ResolvedTo(toCharacterId(requestName))
    /\ UNCHANGED <<requestName, fallbackCharId>>
    /\ UNCHANGED <<moves, keyOut, punOut, punishMoves, optimalOut>>
    /\ UNCHANGED cacheVars
    /\ UNCHANGED parseVars
    /\ UNCHANGED fallbackVars

\* the fallback: const playerCharId = toCharacterId(request.playerCharacter)
ResolveForFallback ==
    /\ ~fallbackCharId.done
    /\ fallbackCharId' = ResolvedTo(toCharacterIdLocal(requestName))
    /\ UNCHANGED <<requestName, contextCharId>>
    /\ UNCHANGED <<moves, keyOut, punOut, punishMoves, optimalOut>>
    /\ UNCHANGED cacheVars
    /\ UNCHANGED parseVars
    /\ UNCHANGED fallbackVars

ResolveInit ==
    /\ CacheIdle
    /\ moves = <<>>
    /\ punishMoves = <<>>
    /\ keyOut = NotRun
    /\ punOut = NotRun
    /\ optimalOut = NotRun
    /\ rawText = <<>>
    /\ parsed = NotParsed
    /\ reparsed = NotParsed
    /\ FallbackIdle
    /\ requestName \in Roster
    /\ contextCharId = Unresolved
    /\ fallbackCharId = Unresolved

ResolveNext == ResolveForContext \/ ResolveForFallback

ResolveSpec == ResolveInit /\ [][ResolveNext]_vars

\* C24: for every display name of the roster, the toCharacterId of the
\* builder and the toCharacterId of the fallback return the same id.
C24_OneResolution ==
    contextCharId.done /\ fallbackCharId.done =>
        contextCharId.id = fallbackCharId.id

-----------------------------------------------------------------------------
(* The client while time passes: the clock advances whatever the upstream  *)
(* source does, and nothing obliges the source to answer.                  *)

LiveSpec == Init /\ [][Next]_vars /\ WF_vars(\E t \in Instants : Tick(t))

\* C25: no call waits forever, even when the upstream source never answers:
\* for every id, either from some time on no fetch for it is in flight, or
\* fetches for it end again and again, by an answer or by a timeout.
C25_NoCallBlocksForever ==
    \A id \in AllIds :
        \/ <>[](inFlight(id) = 0)
        \/ []<><<inFlight(id)' < inFlight(id)>>_vars

-----------------------------------------------------------------------------
(* The move list a classifier is given is the array the cache entry and    *)
(* the returned context hold.                                              *)

fetchFails ==
    \/ last'.op = "fetch" /\ last'.pc = "rejected"
    \/ last'.op = "build" /\ last'.caught /\ builds' # builds
    \/ last'.op = "multiple" /\ last'.pc = "rejected"

\* C27: a fetch that fails leaves the cache as it was: no entry is added,
\* and an entry that has expired is neither removed nor given a new
\* timestamp; and a call that meets an expired entry is not answered from it.
C27_FailureKeepsCache ==
    [][/\ fetchFails => cache' = cache
       /\ \A id \in DirectIds :
            /\ FetchCharacterFrameData(id)
            /\ held(id)
            /\ age(id) >= cacheTTL
            => ~last'.hit /\ last'.pc = "fetch"]_vars

\* the fetch for an id whose entry has expired has failed, and the entry is
\* still there with its old timestamp
C27_Witness ==
    /\ last.op = "fetch"
    /\ last.pc = "rejected"
    /\ held(last.id)
    /\ age(last.id) >= cacheTTL
    /\ inFlight(last.id) = 0

\* clearCache has just returned, and its argument covered the entry of id
justCleared(id) ==
    /\ last.op = "clear"
    /\ last.arg.present /\ last.arg.text # <<>> => last.arg.text = id

\* C28: after clearCache(id) or clearCache() the cache holds no entry for
\* id until a fetch started after the clear completes: the fetch that ends
\* in the step after the clear was in flight when the clear ran, and it
\* leaves the cache without an entry for id.
C28_NoReinsertAfterClear ==
    [][\A id \in AllIds :
          justCleared(id) /\ inFlight(id)' < inFlight(id) => ~held(id)']_vars

\* C29: every punish option pairs the opponent's move with a punish move
\* that is fast enough: a frame advantage that is a number is never
\* negative.
C29_AdvantageNeverNegative ==
    fallback.done =>
        \A i \in 1..Len(fallback.analysis.punishOptions) :
            ~isNaN(printedAdvantage(i)) => printedAdvantage(i).n >= 0

\* C30: the fallback analysis satisfies MatchAnalysisSchema, whatever the
\* punish data of the two characters: at least 8 punish options, 3 optimal
\* punishes, 3 strategies with a condition and a move each, and 3 tips.
C30_FallbackSatisfiesSchema ==
    fallback.done => MatchAnalysisSchema(fallback.analysis)

====
